---- MODULE Spec2Model ----
(***************************************************************************)
(* Model of src/main.py: the timesheet pipeline process_timesheet and its  *)
(* three duration helpers.                                                  *)
(*                                                                          *)
(* Text is modelled as what it is: a string is the sequence of its code    *)
(* points (48..57 the digits, 58 the colon), so that split(':'), int(),    *)
(* f"{n:02d}" and lower() are computed, never assumed.  The missing marker  *)
(* (NaN, what read_csv makes of an empty field) is the empty sequence: a   *)
(* field read from a CSV file is never the empty string.                    *)
(*                                                                          *)
(* Floating point: the values the pipeline computes are h*60 + m + s/60    *)
(* and h + m/60.0.  They are modelled exactly, the first in seconds and    *)
(* the second in minutes (sixtieths of an hour).  For the durations the     *)
(* rounding stage produces (minutes in {0,15,30,45}) the doubles are exact; *)
(* the input domain below is chosen so that they are exact for the          *)
(* pass-through values as well.                                             *)
(***************************************************************************)
EXTENDS Integers, Sequences, FiniteSets, TLC

VARIABLES pc, fileExists, csv, df, existing_columns_to_delete,
          duration_col, client_col, description_col,
          written, ret, error,
          rIn, rOut

(***************************************************************************)
(* pc          where process_timesheet stands: "start", "filter", "locate", *)
(*             "round", "aggregate", "present", "save", "done"              *)
(* fileExists  whether the input file is there (line 68)                    *)
(* csv         the table read_csv makes of the input file                   *)
(* df          the working table (df, then grouped_df)                      *)
(* existing_columns_to_delete, duration_col, client_col, description_col   *)
(*             the locals of those names; None until set                    *)
(* written     the tables written to the output file, in order (line 161)   *)
(* ret         what process_timesheet returns: <<>> for None, <<df>>        *)
(* error       "" or the way the run failed: "FileNotFoundError" (line      *)
(*             182), "MissingColumn" (lines 105-115), "Exception" (185)     *)
(* rIn, rOut   argument and result of a call of round_duration_to_15min     *)
(*             on its own                                                   *)
(***************************************************************************)
vars == <<pc, fileExists, csv, df, existing_columns_to_delete,
          duration_col, client_col, description_col,
          written, ret, error, rIn, rOut>>

(***************************************************************************)
(* Bounds of the model.                                                     *)
(***************************************************************************)
MaxRows == 2
MaxHours == 2
MaxMinutes == 61
MaxSeconds == 61

(***************************************************************************)
(* Strings.                                                                 *)
(***************************************************************************)
NaN == <<>>

isna(v) == v = NaN

IsDigit(c) == c \in 48..57

IsUpper(c) == c \in 65..90

\* str.lower(), on the ASCII letters the model uses
lower(s) == [i \in 1..Len(s) |-> IF IsUpper(s[i]) THEN s[i] + 32 ELSE s[i]]

RECURSIVE SplitFrom(_, _, _)
\* the parts of s[i..] split on ':', cur being the part under construction
SplitFrom(s, i, cur) ==
    IF i > Len(s) THEN <<cur>>
    ELSE IF s[i] = 58 THEN <<cur>> \o SplitFrom(s, i + 1, <<>>)
    ELSE SplitFrom(s, i + 1, Append(cur, s[i]))

\* str(duration_str).split(':')
split(s) == SplitFrom(s, 1, <<>>)

\* int(p) raises ValueError unless p is a non-empty run of digits
IsInt(p) == Len(p) > 0 /\ \A i \in 1..Len(p) : IsDigit(p[i])

RECURSIVE int(_)
int(p) == IF Len(p) = 0 THEN 0
          ELSE int(SubSeq(p, 1, Len(p) - 1)) * 10 + (p[Len(p)] - 48)

RECURSIVE Decimal(_)
\* the decimal digits of n >= 0, no padding
Decimal(n) == IF n < 10 THEN <<48 + n>>
              ELSE Append(Decimal(n \div 10), 48 + (n % 10))

\* f"{n:02d}" for n >= 0
Format02d(n) == IF n < 10 THEN <<48, 48 + n>> ELSE Decimal(n)

\* f"{a:02d}:{b:02d}:00"
FormatHMS(a, b) == Format02d(a) \o <<58>> \o Format02d(b) \o <<58, 48, 48>>

\* CeilTo15 as round(x / 15) * 15 would have it: to the nearest quarter
CeilTo15_Nearest(secs) == ((secs + 450) \div 900) * 15

\* math.ceil(x / 15) * 15 for x = secs / 60 minutes
CeilTo15(secs) == ((secs + 899) \div 900) * 15

RECURSIVE StrLess(_, _)
\* Python's str <: code-point lexicographic order
StrLess(a, b) ==
    IF Len(b) = 0 THEN FALSE
    ELSE IF Len(a) = 0 THEN TRUE
    ELSE IF a[1] # b[1] THEN a[1] < b[1]
    ELSE StrLess(Tail(a), Tail(b))

(***************************************************************************)
(* round_duration_to_15min, duration_to_hours, hours_to_duration.           *)
(***************************************************************************)
\* does round_duration_to_15min(d) raise ValueError (int() of a bad part)?
RoundRaises(d) ==
    /\ ~isna(d)
    /\ LET parts == split(d) IN
         /\ Len(parts) \in {2, 3}
         /\ \E i \in 1..Len(parts) : ~IsInt(parts[i])

\* round_duration_to_15min were it to handle HH:MM:SS only and return
\* HH:MM as it came
round_duration_to_15min_ThreePartsOnly(d) ==
    IF isna(d) THEN d
    ELSE LET parts == split(d) IN
      IF Len(parts) # 3 THEN d
      ELSE LET rounded_minutes == CeilTo15(int(parts[1]) * 3600 + int(parts[2]) * 60
                                           + int(parts[3]))
           IN FormatHMS(rounded_minutes \div 60, rounded_minutes % 60)

round_duration_to_15min(d) ==
    IF isna(d) THEN d
    ELSE LET parts == split(d) IN
      IF Len(parts) \notin {2, 3} THEN d
      ELSE LET hours == int(parts[1])
               minutes == int(parts[2])
               seconds == IF Len(parts) = 3 THEN int(parts[3]) ELSE 0
               rounded_minutes == CeilTo15(hours * 3600 + minutes * 60 + seconds)
           IN FormatHMS(rounded_minutes \div 60, rounded_minutes % 60)

\* does duration_to_hours(d) raise ValueError?
HoursRaises(d) ==
    /\ ~isna(d)
    /\ LET parts == split(d) IN
         /\ Len(parts) >= 2
         /\ (~IsInt(parts[1]) \/ ~IsInt(parts[2]))

\* duration_to_hours were it to return the hours field alone
duration_to_hours_HoursOnly(d) ==
    IF isna(d) THEN 0
    ELSE LET parts == split(d) IN
      IF Len(parts) >= 2 THEN int(parts[1]) * 60 ELSE 0

\* duration_to_hours(d), in minutes: the value is hours + minutes/60.0
duration_to_hours(d) ==
    IF isna(d) THEN 0
    ELSE LET parts == split(d) IN
      IF Len(parts) >= 2 THEN int(parts[1]) * 60 + int(parts[2]) ELSE 0

\* hours_to_duration(h), h given in minutes: total_minutes = int(h * 60)
hours_to_duration(h) == FormatHMS(h \div 60, h % 60)

(***************************************************************************)
(* Tables.  A table is its column names in order, its row labels (the      *)
(* pandas index) and its rows, each the sequence of its cells in column    *)
(* order.                                                                   *)
(***************************************************************************)
Range(s) == {s[i] : i \in 1..Len(s)}

RangeIndex(n) == [i \in 1..n |-> i - 1]

Table(cols, rows) == [columns |-> cols, index |-> RangeIndex(Len(rows)), rows |-> rows]

\* df.columns.get_loc(col), 0-based
get_loc(t, col) == (CHOOSE i \in 1..Len(t.columns) : t.columns[i] = col) - 1

\* the cell of row i (a position, 1-based) in column col
Cell(t, i, col) == t.rows[i][get_loc(t, col) + 1]

\* df.drop(columns=names)
drop(t, names) ==
    LET keep == {k \in 1..Len(t.columns) : t.columns[k] \notin names}
        Kept(s) == LET F[k \in 0..Len(s)] ==
                           IF k = 0 THEN <<>>
                           ELSE IF k \in keep THEN Append(F[k - 1], s[k]) ELSE F[k - 1]
                   IN F[Len(s)]
    IN [t EXCEPT !.columns = Kept(t.columns),
                 !.rows = [i \in 1..Len(t.rows) |-> Kept(t.rows[i])]]

\* df[col] = values, for a column the table already has
SetColumn(t, col, values) ==
    [t EXCEPT !.rows = [i \in 1..Len(t.rows) |->
                          [t.rows[i] EXCEPT ![get_loc(t, col) + 1] = values[i]]]]

InsertAt(s, pos, x) == SubSeq(s, 1, pos) \o <<x>> \o SubSeq(s, pos + 1, Len(s))

\* df.insert(pos, col, values); pos = Len(columns) is df[col] = values for a new column
insert(t, pos, col, values) ==
    [t EXCEPT !.columns = InsertAt(t.columns, pos, col),
              !.rows = [i \in 1..Len(t.rows) |-> InsertAt(t.rows[i], pos, values[i])]]

NoTable == Table(<<>>, <<>>)

None == <<>>

(***************************************************************************)
(* Column names.                                                            *)
(***************************************************************************)
columns_to_delete ==
    << <<117,115,101,114>>,                       \* 'user'
       <<101,109,97,105,108>>,                    \* 'email'
       <<116,97,115,107>>,                        \* 'task'
       <<98,105,108,108,97,98,108,101>>,          \* 'billable'
       <<115,116,97,114,116,32,116,105,109,101>>, \* 'start time'
       <<101,110,100,32,100,97,116,101>>,         \* 'end date'
       <<101,110,100,32,116,105,109,101>>,        \* 'end time'
       <<116,97,103,115>> >>                      \* 'tags'

DurationName == <<100,117,114,97,116,105,111,110>>                \* 'duration'
ClientName == <<99,108,105,101,110,116>>                          \* 'client'
DescriptionName == <<100,101,115,99,114,105,112,116,105,111,110>> \* 'description'
TempHours == <<116,101,109,112,95,104,111,117,114,115>>           \* 'temp_hours'
HoursName == <<72,111,117,114,115>>                               \* 'Hours'

RECURSIVE FirstMatches(_, _)
\* lines 80-84: for each denylist entry, the first column equal to it
\* ignoring case (the inner loop breaks at the first match)
FirstMatches(cols, deny) ==
    IF deny = <<>> THEN <<>>
    ELSE LET target == lower(Head(deny))
             hits == {i \in 1..Len(cols) :
                         Len(cols[i]) = Len(target) /\ lower(cols[i]) = target}
             first == CHOOSE i \in hits : \A j \in hits : i <= j
         IN (IF hits = {} THEN <<>> ELSE <<cols[first]>>)
            \o FirstMatches(cols, Tail(deny))

\* lines 97-103: the last column whose lower() is name, None if there is none
Locate(cols, name) ==
    LET hits == {i \in 1..Len(cols) : lower(cols[i]) = name} IN
    IF hits = {} THEN None
    ELSE cols[CHOOSE i \in hits : \A j \in hits : j <= i]

(***************************************************************************)
(* groupby([client_col, description_col], as_index=False).agg(...)          *)
(***************************************************************************)
\* pandas drops the rows whose key holds NaN (groupby's dropna=True default)
KeyedRows(t, ccol, dcol) ==
    {i \in 1..Len(t.rows) : ~isna(Cell(t, i, ccol)) /\ ~isna(Cell(t, i, dcol))}

KeyOf(t, i, ccol, dcol) == <<Cell(t, i, ccol), Cell(t, i, dcol)>>

KeyLess(a, b) == StrLess(a[1], b[1]) \/ (a[1] = b[1] /\ StrLess(a[2], b[2]))

RECURSIVE SortKeys(_)
\* the group keys in ascending order (groupby's sort=True default)
SortKeys(S) ==
    IF S = {} THEN <<>>
    ELSE LET m == CHOOSE k \in S : \A o \in S \ {k} : KeyLess(k, o)
         IN <<m>> \o SortKeys(S \ {m})

\* the rows of one group, as positions in the table
Members(t, key, ccol, dcol) ==
    {i \in KeyedRows(t, ccol, dcol) : KeyOf(t, i, ccol, dcol) = key}

RECURSIVE SumOver(_, _, _)
\* agg 'sum' of column col over the rows S
SumOver(t, col, S) ==
    IF S = {} THEN 0
    ELSE LET i == CHOOSE j \in S : TRUE
         IN Cell(t, i, col) + SumOver(t, col, S \ {i})

\* agg 'first' of column col over the rows S: GroupBy.first is the first
\* non-null entry of the column in the group, NaN when the group has none
First(t, col, S) ==
    LET full == {i \in S : ~isna(Cell(t, i, col))} IN
    IF full = {} THEN NaN
    ELSE Cell(t, CHOOSE i \in full : \A j \in full : i <= j, col)

\* lines 131-135
groupby_agg(t, ccol, dcol, durcol) ==
    LET keys == SortKeys({KeyOf(t, i, ccol, dcol) : i \in KeyedRows(t, ccol, dcol)})
        others == SelectSeq(t.columns,
                      LAMBDA c : c \notin {ccol, dcol, durcol, TempHours})
        cols == <<ccol, dcol, TempHours>> \o others
    IN Table(cols,
         [g \in 1..Len(keys) |->
            LET S == Members(t, keys[g], ccol, dcol) IN
            [k \in 1..Len(cols) |->
                IF cols[k] = ccol THEN keys[g][1]
                ELSE IF cols[k] = dcol THEN keys[g][2]
                ELSE IF cols[k] = TempHours THEN SumOver(t, TempHours, S)
                ELSE First(t, cols[k], S)]])

\* Series.round(2) of a value of m/60 hours, in hundredths of an hour
\* (m * 100 / 60 is never half-way between two integers)
round2(m) == (10 * m + 3) \div 6

\* the orders sort_values(by=col) may leave the rows in: ascending in col.
\* The default kind='quicksort' is not a stable sort, so rows with equal
\* values may come out in any order.
SortOrders(t, col) ==
    {p \in [1..Len(t.rows) -> 1..Len(t.rows)] :
        /\ \A i, j \in 1..Len(t.rows) : i # j => p[i] # p[j]
        /\ \A i \in 1..(Len(t.rows) - 1) :
              ~StrLess(Cell(t, p[i + 1], col), Cell(t, p[i], col))}

\* the table with its rows (and their labels) in the order p
Reorder(t, p) ==
    [t EXCEPT !.index = [i \in 1..Len(t.rows) |-> t.index[p[i]]],
              !.rows = [i \in 1..Len(t.rows) |-> t.rows[p[i]]]]

\* reset_index(drop=True)
reset_index(t) == [t EXCEPT !.index = RangeIndex(Len(t.rows))]

(***************************************************************************)
(* The inputs: whether timesheet.csv exists, and the table read_csv makes  *)
(* of it.                                                                   *)
(***************************************************************************)
Project == <<80,114,111,106,101,99,116>>                       \* 'Project'
Client == <<67,108,105,101,110,116>>                           \* 'Client'
Description == <<68,101,115,99,114,105,112,116,105,111,110>>   \* 'Description'
Duration == <<68,117,114,97,116,105,111,110>>                  \* 'Duration'
User == <<85,115,101,114>>                                     \* 'User'
USER == <<85,83,69,82>>                                        \* 'USER'

\* Header rows.  The capitalised ones carry a column the pipeline does not
\* know (Project) or two spellings of one denylist entry (User, USER); the
\* lower-case ones are the three required columns, or two of them.
Layouts ==
    { <<Project, Client, Description, Duration>>,
      <<User, USER, Client, Description>>,
      <<DurationName, DescriptionName, ClientName>>,
      <<DescriptionName, DurationName>>,
      <<ClientName, DurationName>> }

T001000 == <<48,48,58,49,48,58,48,48>>   \* '00:10:00'
T0020 == <<48,48,58,50,48>>              \* '00:20'
T1234 == <<49,58,50,58,51,58,52>>        \* '1:2:3:4'
T0x0 == <<48,58,120,58,48>>              \* '0:x:0'

\* the values a cell of column col may hold
Cells(col) ==
    CASE col = Duration -> {NaN, T001000}
      [] col = DurationName -> {NaN, T001000, T0020, T1234, T0x0}
      [] col \in {Client, ClientName} -> {NaN, <<65>>, <<66>>}   \* 'A', 'B'
      [] col = Description -> {<<120>>, <<121>>}                 \* 'x', 'y'
      [] col = DescriptionName -> {NaN, <<120>>}                 \* 'x'
      [] col = Project -> {NaN, <<112>>}                         \* 'p'
      [] OTHER -> {<<117>>}                                      \* 'u'

RECURSIVE RowsOver(_)
RowsOver(cols) ==
    IF cols = <<>> THEN {<<>>}
    ELSE {<<v>> \o r : v \in Cells(Head(cols)), r \in RowsOver(Tail(cols))}


\* the duration strings round_duration_to_15min is applied to on its own:
\* HH:MM and HH:MM:SS, each component with and without zero padding
RoundComponents(max) == {Decimal(n) : n \in 0..max} \cup {Format02d(n) : n \in 0..max}

RoundInputs ==
    {h \o <<58>> \o m : h \in RoundComponents(MaxHours), m \in RoundComponents(MaxMinutes)}
    \cup {h \o <<58>> \o m \o <<58>> \o s :
            h \in RoundComponents(MaxHours), m \in RoundComponents(MaxMinutes),
            s \in RoundComponents(MaxSeconds)}

(***************************************************************************)
(* process_timesheet, stage by stage.                                       *)
(***************************************************************************)
Init ==
    /\ pc = "start"
    /\ \/ fileExists = FALSE /\ csv = NoTable
       \/ /\ fileExists = TRUE
          /\ \E cols \in Layouts, n \in 0..MaxRows :
                \E rows \in [1..n -> RowsOver(cols)] : csv = Table(cols, rows)
    /\ df = NoTable
    /\ existing_columns_to_delete = <<>>
    /\ duration_col = None
    /\ client_col = None
    /\ description_col = None
    /\ written = <<>>
    /\ ret = <<>>
    /\ error = ""
    /\ rIn = NaN
    /\ rOut = NaN

locals == <<existing_columns_to_delete, duration_col, client_col, description_col>>

\* line 68
ReadCsv ==
    /\ pc = "start"
    /\ fileExists
    /\ df' = csv
    /\ pc' = "filter"
    /\ UNCHANGED <<fileExists, csv, locals, written, ret, error, rIn, rOut>>

\* line 68 raising FileNotFoundError, lines 182-184
ReadCsvFails ==
    /\ pc = "start"
    /\ ~fileExists
    /\ error' = "FileNotFoundError"
    /\ pc' = "done"
    /\ UNCHANGED <<fileExists, csv, df, locals, written, ret, rIn, rOut>>

\* lines 76-90
DeleteColumns ==
    /\ pc = "filter"
    /\ existing_columns_to_delete' = FirstMatches(df.columns, columns_to_delete)
    /\ df' = IF existing_columns_to_delete' # <<>>
             THEN drop(df, Range(existing_columns_to_delete'))
             ELSE df
    /\ pc' = "locate"
    /\ UNCHANGED <<fileExists, csv, duration_col, client_col, description_col,
                   written, ret, error, rIn, rOut>>

\* lines 92-115
LocateColumns ==
    /\ pc = "locate"
    /\ duration_col' = Locate(df.columns, DurationName)
    /\ client_col' = Locate(df.columns, ClientName)
    /\ description_col' = Locate(df.columns, DescriptionName)
    /\ IF None \in {duration_col', client_col', description_col'}
       THEN pc' = "done" /\ error' = "MissingColumn"
       ELSE pc' = "round" /\ error' = error
    /\ UNCHANGED <<fileExists, csv, df, existing_columns_to_delete,
                   written, ret, rIn, rOut>>

\* RoundDurations were the table saved as far as it got when a value fails
RoundDurations_SavesPartial ==
    /\ pc = "round"
    /\ IF \E i \in 1..Len(df.rows) : RoundRaises(Cell(df, i, duration_col))
       THEN /\ pc' = "done"
            /\ error' = "Exception"
            /\ df' = df
            /\ written' = Append(written, df)
       ELSE /\ pc' = "aggregate"
            /\ error' = error
            /\ df' = SetColumn(df, duration_col,
                        [i \in 1..Len(df.rows) |->
                            round_duration_to_15min(Cell(df, i, duration_col))])
            /\ written' = written
    /\ UNCHANGED <<fileExists, csv, locals, ret, rIn, rOut>>

\* line 119; a ValueError goes to lines 185-186
RoundDurations ==
    /\ pc = "round"
    /\ IF \E i \in 1..Len(df.rows) : RoundRaises(Cell(df, i, duration_col))
       THEN /\ pc' = "done"
            /\ error' = "Exception"
            /\ df' = df
       ELSE /\ pc' = "aggregate"
            /\ error' = error
            /\ df' = SetColumn(df, duration_col,
                        [i \in 1..Len(df.rows) |->
                            round_duration_to_15min(Cell(df, i, duration_col))])
    /\ UNCHANGED <<fileExists, csv, locals, written, ret, rIn, rOut>>

\* lines 121-138; a ValueError goes to lines 185-186
Aggregate ==
    /\ pc = "aggregate"
    /\ IF \E i \in 1..Len(df.rows) : HoursRaises(Cell(df, i, duration_col))
       THEN /\ pc' = "done"
            /\ error' = "Exception"
            /\ df' = df
       ELSE LET withHours == insert(df, Len(df.columns), TempHours,
                                 [i \in 1..Len(df.rows) |->
                                     duration_to_hours(Cell(df, i, duration_col))])
                grouped_df == groupby_agg(withHours, client_col, description_col,
                                          duration_col)
            IN /\ pc' = "present"
               /\ error' = error
               /\ df' = insert(grouped_df, Len(grouped_df.columns), duration_col,
                            [g \in 1..Len(grouped_df.rows) |->
                                hours_to_duration(Cell(grouped_df, g, TempHours))])
    /\ UNCHANGED <<fileExists, csv, locals, written, ret, rIn, rOut>>

\* lines 140-157
Present ==
    /\ pc = "present"
    /\ LET desc_index == get_loc(df, description_col)
           hours_col == [g \in 1..Len(df.rows) |-> round2(Cell(df, g, TempHours))]
           grouped_df == drop(insert(df, desc_index + 1, HoursName, hours_col),
                              {TempHours})
       IN \E p \in SortOrders(grouped_df, client_col) :
             df' = reset_index(Reorder(grouped_df, p))
    /\ pc' = "save"
    /\ UNCHANGED <<fileExists, csv, locals, written, ret, error, rIn, rOut>>

\* lines 159-180
Save ==
    /\ pc = "save"
    /\ written' = Append(written, df)
    /\ ret' = <<df>>
    /\ pc' = "done"
    /\ UNCHANGED <<fileExists, csv, df, locals, error, rIn, rOut>>

Next ==
    \/ ReadCsv
    \/ ReadCsvFails
    \/ DeleteColumns
    \/ LocateColumns
    \/ RoundDurations
    \/ Aggregate
    \/ Present
    \/ Save

Spec == Init /\ [][Next]_vars

(***************************************************************************)
(* round_duration_to_15min on its own.                                      *)
(***************************************************************************)
InitRound ==
    /\ pc = "call"
    /\ rIn \in RoundInputs
    /\ rOut = NaN
    /\ fileExists = FALSE
    /\ csv = NoTable
    /\ df = NoTable
    /\ existing_columns_to_delete = <<>>
    /\ duration_col = None
    /\ client_col = None
    /\ description_col = None
    /\ written = <<>>
    /\ ret = <<>>
    /\ error = ""

\* lines 5-35
RoundCall ==
    /\ pc = "call"
    /\ ~RoundRaises(rIn)
    /\ rOut' = round_duration_to_15min(rIn)
    /\ pc' = "returned"
    /\ UNCHANGED <<fileExists, csv, df, locals, written, ret, error, rIn>>

NextRound == RoundCall

SpecRound == InitRound /\ [][NextRound]_vars

(***************************************************************************)
(* Vocabulary of the claims.                                                *)
(***************************************************************************)
Success == pc = "done" /\ error = ""

\* the table written to timesheet_processed.csv
Out == written[1]

\* d is HH:MM or HH:MM:SS with non-negative integer components
WellFormed(d) ==
    /\ Len(split(d)) \in {2, 3}
    /\ \A k \in 1..Len(split(d)) : IsInt(split(d)[k])

\* what a well-formed d amounts to, in seconds
SecondsOf(d) ==
    int(split(d)[1]) * 3600 + int(split(d)[2]) * 60
    + (IF Len(split(d)) = 3 THEN int(split(d)[3]) ELSE 0)

\* the least multiple of 15 minutes that is no less than secs seconds
LeastQuarter(secs) ==
    CHOOSE r \in 0..(secs \div 60 + 15) :
        r % 15 = 0 /\ r * 60 >= secs /\ r * 60 - secs < 900

\* d reads HH:MM:00, both fields of two digits at least, the minutes below 60
IsHHMM00(d) ==
    /\ Len(split(d)) = 3
    /\ IsInt(split(d)[1]) /\ Len(split(d)[1]) >= 2
    /\ IsInt(split(d)[2]) /\ Len(split(d)[2]) = 2 /\ int(split(d)[2]) < 60
    /\ split(d)[3] = <<48, 48>>

\* the minutes an HH:MM:00 text amounts to
MinutesOf(d) == int(split(d)[1]) * 60 + int(split(d)[2])

\* canonical form: HH:MM:00 on a 15-minute boundary
Canonical(d) == IsHHMM00(d) /\ MinutesOf(d) % 15 = 0

InKey(i) == <<Cell(csv, i, client_col), Cell(csv, i, description_col)>>

OutKey(g) == <<Cell(Out, g, client_col), Cell(Out, g, description_col)>>

\* the input rows of the group of output row g
Group(g) == {i \in 1..Len(csv.rows) : InKey(i) = OutKey(g)}

RECURSIVE SumRounded(_)
\* the group's durations, each rounded up to 15 minutes, an empty one counting 0
SumRounded(S) ==
    IF S = {} THEN 0
    ELSE LET i == CHOOSE j \in S : TRUE
             d == Cell(csv, i, duration_col)
         IN (IF isna(d) THEN 0 ELSE LeastQuarter(SecondsOf(d))) + SumRounded(S \ {i})

(***************************************************************************)
(* C1  round_duration_to_15min renders, as HH:MM:00, the least multiple of *)
(* 15 minutes that is no less than its argument: the result is never below *)
(* the argument, exceeds it by less than 15 minutes, and equals it when    *)
(* the argument is on a 15-minute boundary.                                 *)
(***************************************************************************)
C1_RoundsUpToLeastQuarter ==
    pc = "returned" =>
        /\ IsHHMM00(rOut)
        /\ MinutesOf(rOut) % 15 = 0
        /\ MinutesOf(rOut) * 60 >= SecondsOf(rIn)
        /\ MinutesOf(rOut) * 60 - SecondsOf(rIn) < 900
        /\ (SecondsOf(rIn) % 900 = 0 => MinutesOf(rOut) * 60 = SecondsOf(rIn))

\* '00:00:01' has been rounded to '00:15:00'
C1_Witness ==
    /\ pc = "returned"
    /\ rIn = <<48,48,58,48,48,58,48,49>>
    /\ rOut = <<48,48,58,49,53,58,48,48>>

(***************************************************************************)
(* C2  After a successful run the output has exactly one row per distinct  *)
(* (client, description) pair of the input rows, the missing marker being  *)
(* a value like any other: every input row's pair is the pair of exactly   *)
(* one output row, and every output pair is the pair of some input row.    *)
(***************************************************************************)
C2_OneRowPerKey ==
    Success =>
        /\ \A i \in 1..Len(csv.rows) :
              Cardinality({g \in 1..Len(Out.rows) : OutKey(g) = InKey(i)}) = 1
        /\ \A g \in 1..Len(Out.rows) : Group(g) # {}

(***************************************************************************)
(* C3  In the output of a successful run, the duration of a row whose      *)
(* group holds only empty and well-formed durations is, in minutes, the    *)
(* sum of the group's durations each rounded up to 15 minutes (an empty    *)
(* one contributing 0), and its Hours value is that total divided by 60    *)
(* (Hours is held in hundredths of an hour).                                *)
(***************************************************************************)
C3_GroupTotal ==
    Success =>
        \A g \in 1..Len(Out.rows) :
            (\A i \in Group(g) : isna(Cell(csv, i, duration_col))
                                 \/ WellFormed(Cell(csv, i, duration_col)))
            => /\ IsHHMM00(Cell(Out, g, duration_col))
               /\ MinutesOf(Cell(Out, g, duration_col)) = SumRounded(Group(g))
               /\ Cell(Out, g, HoursName) * 60 = SumRounded(Group(g)) * 100

\* '00:10:00' and '00:20' in one group have given 00:45:00 and 0.75 hours
C3_Witness ==
    /\ Success
    /\ \E g \in 1..Len(Out.rows) :
          /\ \E i, j \in Group(g) :
                /\ Cell(csv, i, duration_col) = T001000
                /\ Cell(csv, j, duration_col) = T0020
          /\ Cardinality(Group(g)) = 2
          /\ Cell(Out, g, duration_col) = <<48,48,58,52,53,58,48,48>>
          /\ Cell(Out, g, HoursName) = 75

(***************************************************************************)
(* C4  In the output of a successful run, every column other than client,  *)
(* description, duration and Hours holds, in each row, the value of the    *)
(* first input row of that row's group, the missing marker included.       *)
(***************************************************************************)
C4_FirstRowValue ==
    Success =>
        \A g \in 1..Len(Out.rows) :
            \A k \in 1..Len(Out.columns) :
                Out.columns[k] \notin {client_col, description_col, duration_col, HoursName}
                => LET first == CHOOSE i \in Group(g) : \A j \in Group(g) : i <= j
                   IN Out.rows[g][k] = Cell(csv, first, Out.columns[k])

(***************************************************************************)
(* C5  After the column filter no surviving column equals a denylist entry *)
(* ignoring case, and every column that matches no entry is retained.      *)
(***************************************************************************)
C5_DenylistRemoved ==
    pc = "locate" =>
        LET deny == {lower(columns_to_delete[k]) : k \in 1..Len(columns_to_delete)} IN
        /\ \A k \in 1..Len(df.columns) : lower(df.columns[k]) \notin deny
        /\ \A k \in 1..Len(csv.columns) :
              lower(csv.columns[k]) \notin deny => csv.columns[k] \in Range(df.columns)

(***************************************************************************)
(* C6  The columns of the output of a successful run are the columns the   *)
(* filter left, in their original order, with Hours added immediately      *)
(* after the description column.                                            *)
(***************************************************************************)
C6_ColumnOrder ==
    Success =>
        LET kept == SelectSeq(csv.columns,
                        LAMBDA c : c \notin Range(existing_columns_to_delete))
            at == CHOOSE k \in 1..Len(kept) : kept[k] = description_col
        IN Out.columns = InsertAt(kept, at, HoursName)

\* a duration int() is applied to and rejects
NonNumericDuration(d) == ~isna(d) /\ Len(split(d)) \in {2, 3} /\ ~WellFormed(d)

\* a required column is not among the columns the filter leaves
MissingRequired ==
    LET left == Range(csv.columns) \ Range(existing_columns_to_delete)
    IN {DurationName, ClientName, DescriptionName} \ {lower(c) : c \in left} # {}

\* some row of the input holds such a duration
BadDuration ==
    /\ duration_col # None
    /\ \E i \in 1..Len(csv.rows) : NonNumericDuration(Cell(csv, i, duration_col))

(***************************************************************************)
(* C7  A run that ends in an error (the file is missing, a required column *)
(* cannot be located, a duration does not parse) has written no output     *)
(* file, has ended, and returns no table; each of the three causes ends    *)
(* the run in an error; and the output file is written once, at the very   *)
(* end, holding the rounded, grouped and sorted table.                      *)
(***************************************************************************)
C7_NoOutputOnError ==
    /\ error # "" => pc = "done" /\ written = <<>> /\ ret = <<>>
    /\ (pc = "done" /\ (~fileExists \/ MissingRequired \/ BadDuration)) => error # ""
    /\ written # <<>> =>
          /\ pc = "done" /\ error = "" /\ written = <<df>> /\ ret = <<df>>
          /\ \A g \in 1..Len(Out.rows) : IsHHMM00(Cell(Out, g, duration_col))
          /\ \A g, h \in 1..Len(Out.rows) : g # h => OutKey(g) # OutKey(h)
          /\ \A g \in 1..(Len(Out.rows) - 1) :
                ~StrLess(Cell(Out, g + 1, client_col), Cell(Out, g, client_col))

\* a run whose second row holds '0:x:0' has ended in the generic error
C7_Witness ==
    /\ pc = "done"
    /\ error = "Exception"
    /\ written = <<>>
    /\ ret = <<>>
    /\ Len(csv.rows) = 2
    /\ Cell(csv, 1, duration_col) = T001000
    /\ Cell(csv, 2, duration_col) = T0x0

(***************************************************************************)
(* C8  The presentation step leaves the rows in ascending order of client, *)
(* rows of equal client in the order the aggregation produced them, and    *)
(* the row labels 0..n-1.                                                   *)
(***************************************************************************)
C8_SortedStable ==
    [][pc = "present" =>
        LET n == Len(df'.rows)
            Before(g) == CHOOSE k \in 1..Len(df.rows) :
                            /\ Cell(df, k, client_col) = Cell(df', g, client_col)
                            /\ Cell(df, k, description_col) = Cell(df', g, description_col)
        IN /\ \A g \in 1..(n - 1) :
                 ~StrLess(Cell(df', g + 1, client_col), Cell(df', g, client_col))
           /\ \A g, h \in 1..n :
                 (g < h /\ Cell(df', g, client_col) = Cell(df', h, client_col))
                 => Before(g) < Before(h)
           /\ df'.index = RangeIndex(n)]_vars

(***************************************************************************)
(* C9  An input row whose (client, description) pair no other input row    *)
(* has gives exactly one output row with that pair, whose duration is      *)
(* round_duration_to_15min of the row's duration and whose other surviving *)
(* columns hold the row's values.                                           *)
(***************************************************************************)
C9_UniqueRowPassesThrough ==
    Success =>
        \A i \in 1..Len(csv.rows) :
            (\A j \in 1..Len(csv.rows) : j # i => InKey(j) # InKey(i))
            => /\ Cardinality({g \in 1..Len(Out.rows) : OutKey(g) = InKey(i)}) = 1
               /\ \A g \in 1..Len(Out.rows) :
                     OutKey(g) = InKey(i)
                     => /\ Cell(Out, g, duration_col)
                             = round_duration_to_15min(Cell(csv, i, duration_col))
                        /\ \A k \in 1..Len(Out.columns) :
                              Out.columns[k] \notin {duration_col, HoursName}
                              => Out.rows[g][k] = Cell(csv, i, Out.columns[k])

(***************************************************************************)
(* C10  When the aggregation starts, every duration that is not empty is   *)
(* in canonical form (HH:MM:00 on a 15-minute boundary), so that           *)
(* duration_to_hours, which reads hours and minutes only, drops nothing.   *)
(***************************************************************************)
C10_AllCanonical ==
    pc = "aggregate" =>
        \A i \in 1..Len(df.rows) :
            ~isna(Cell(df, i, duration_col)) => Canonical(Cell(df, i, duration_col))

(***************************************************************************)
(* C10, amended  When the aggregation starts, every duration that had two  *)
(* or three components is in canonical form and duration_to_hours returns  *)
(* all of it; an empty duration and one with another number of components  *)
(* are as they were read.                                                   *)
(***************************************************************************)
C10_TwoOrThreePartsCanonical ==
    pc = "aggregate" =>
        \A i \in 1..Len(df.rows) :
            LET read == Cell(csv, i, duration_col)
                d == Cell(df, i, duration_col)
            IN IF ~isna(read) /\ Len(split(read)) \in {2, 3}
               THEN Canonical(d) /\ duration_to_hours(d) * 60 = SecondsOf(d)
               ELSE d = read

\* '00:20' has become '00:30:00' and '1:2:3:4' is as it was read
C10_Witness ==
    /\ pc = "aggregate"
    /\ Len(df.rows) = 2
    /\ Cell(csv, 1, duration_col) = T0020
    /\ Cell(df, 1, duration_col) = <<48,48,58,51,48,58,48,48>>
    /\ Cell(csv, 2, duration_col) = T1234
    /\ Cell(df, 2, duration_col) = T1234

====
